---- MODULE Spec2Model ----
(***************************************************************************)
(* Model of packages/bottender/src/bot/Bot.ts: the continuation engine     *)
(* `run` and the request handler built by Bot.createRequestHandler.        *)
(*                                                                         *)
(* Every `await` of the source is a point where other asynchronous work    *)
(* may interleave, so each awaited call is split in the step that issues   *)
(* it and the step in which it settles (fulfils or rejects).  The          *)
(* collaborators (connector, session store, plugins, actions, context) are *)
(* the environment: each of their calls may succeed or fail.               *)
(***************************************************************************)
EXTENDS Integers, Sequences, FiniteSets, TLC

\* ------------------------------------------------------------------ bounds
MaxReq == 2          \* request-handler invocations in one behaviour
MaxEvents == 2       \* events of one payload (pipeline specification)
MaxBatch == 6        \* events of one payload (resolution specification)
MaxChain == 2        \* Actions in one dialog chain
MaxPlugins == 1      \* plugins registered with use()

\* pMap's concurrency option
Concurrency == 5

\* the connector's platform identifier
Platform == "any"

\* ------------------------------------------------------------ plain values
Undefined == <<"undefined", 0>>
ObjectResponse(c) == <<"object", c>>
StringResponse == <<"string", 0>>
NoError == ""
EmptyProps == {}
ErrorProps(err) == {<<"error", err>>}

\* session keys the connector can produce; "" is "no session key"
SessionKeys == {"", "k1", "k2"}

\* `${platform}:${sessionKey}`
MkSessionId(platform, sessionKey) == platform \o ":" \o sessionKey

\* A session object: its own properties and, for id and platform, the
\* `writable` attribute of the property.  "" and 0 stand for an absent
\* property.  `ref` is the identity of the object (0: no object).
NoSession ==
  [present |-> FALSE, ref |-> 0, id |-> "", idWritable |-> TRUE,
   platform |-> "", platformWritable |-> TRUE, user |-> 0, state |-> 0,
   lastActivity |-> 0]

\* Object.create(null)
EmptySession == [NoSession EXCEPT !.present = TRUE]

\* what the store keeps of a session, and the object a read gives back
Stored(s) ==
  [id |-> s.id, platform |-> s.platform, user |-> s.user, state |-> s.state,
   lastActivity |-> s.lastActivity]

Loaded(rec) ==
  [EmptySession EXCEPT !.id = rec.id, !.platform = rec.platform,
                       !.user = rec.user, !.state = rec.state,
                       !.lastActivity = rec.lastActivity]

\* a record left in the store by an earlier deployment of the bot
LegacyRecord ==
  [id |-> "legacy:k1", platform |-> "legacy", user |-> 1, state |-> 0,
   lastActivity |-> 0]

VARIABLES
  handler,        \* _handler: 0 is null, 1 the Action registered
  errorHandler,   \* _errorHandler, likewise
  plugins,        \* number of functions in _plugins
  sync,           \* _sync
  initialized,    \* _initialized
  sessions,       \* the session store's content: id -> stored record
  requestHandler, \* "none", "created" or "threw": createRequestHandler()
  initCalls,      \* calls of _sessions.init() so far
  now,            \* Date.now()
  reqs,           \* per invocation of the request handler
  cur,            \* the invocation whose pipeline the variables below hold
  phase,          \* where the body of the request handler stands
  events,         \* mapRequestToEvents(body)
  res,            \* per event: where its pMap mapper stands
  isRejected,     \* pMap has rejected
  session,        \* per event: the session object of its mapper
  contexts,       \* per event: the context createContext returned
  plug,           \* per context: plugin calls not yet settled
  task,           \* per context: its promise chain of lines 270-286
  promises,       \* the Promise.all of line 268
  wr,             \* per context: its _sessions.write call
  console         \* errors given to console.error by the request handler

botVars == <<handler, errorHandler, plugins, sync, requestHandler>>
storeVars == <<initialized, sessions, initCalls>>
pipeVars == <<cur, phase, events, res, isRejected, session, contexts, plug,
              task, promises, wr, console>>
vars == <<botVars, storeVars, now, reqs, pipeVars>>

Requests == 1..MaxReq
Ctxs == DOMAIN events

\* ------------------------------------------------------------------ bodies
NullBody == [null |-> TRUE, entries |-> <<>>]
Body(entries) == [null |-> FALSE, entries |-> entries]
Event(key) == [key |-> key]

RECURSIVE SeqsUpTo(_, _)
SeqsUpTo(S, n) ==
  IF n = 0 THEN {<<>>}
  ELSE LET shorter == SeqsUpTo(S, n - 1)
       IN shorter \cup {Append(q, x) : q \in {p \in shorter : Len(p) = n - 1}, x \in S}

\* "k2" only after "k1": the two keys are interchangeable
Canonical(keys) ==
  \A i \in DOMAIN keys : keys[i] = "k2" => \E j \in 1..(i - 1) : keys[j] = "k1"

Bodies ==
  {NullBody} \cup
  {Body([i \in DOMAIN keys |-> Event(keys[i])]) :
     keys \in {q \in SeqsUpTo(SessionKeys, MaxEvents) : Canonical(q)}}

\* payloads large enough to fill pMap's slots
BatchBodies ==
  {Body([i \in 1..n |-> Event("k1")]) : n \in 0..MaxBatch}

\* payloads of the same conversations, request after request
SequenceBodies ==
  {Body(<<Event("k1")>>), Body(<<Event("k2")>>),
   Body(<<Event("k1"), Event("k1")>>)}

\* connector.mapRequestToEvents(body)
MapRequestToEvents(body) == body.entries

\* `events.length === 1 ? body : event`
BodyOrEvent(body, evs, e) == IF Len(evs) = 1 THEN body ELSE evs[e]

\* connector.getUniqueSessionKey(bodyOrEvent)
GetUniqueSessionKey(arg) ==
  IF "entries" \in DOMAIN arg THEN arg.entries[1].key ELSE arg.key

\* ---------------------------------------------------------------- sessions
Writable(s, prop) ==
  IF prop \in {"id", "platform"} THEN s[prop \o "Writable"] ELSE TRUE

\* Object.defineProperty(session, prop, {configurable: false,
\* enumerable: true, writable: false, value})
DefinePropertyStillWritable(s, prop, value) == [s EXCEPT ![prop] = value]

DefineProperty(s, prop, value) ==
  [s EXCEPT ![prop] = value, ![prop \o "Writable"] = FALSE]

\* `session[prop] = value` by any code holding the session: it changes a
\* writable property only (a read-only one is left alone, silently or with
\* a TypeError that fails the step doing it)
Assign(s, prop, value) ==
  IF s.present /\ Writable(s, prop) THEN [s EXCEPT ![prop] = value] ELSE s

\* lines 209-230: the record read, or a fresh object, with id and platform
\* fixed
FixSession(found, sessionId, platform) ==
  LET s0 == found
      s1 == DefineProperty(s0, "id", IF s0.id # "" THEN s0.id ELSE sessionId)
      s2 == IF s1.platform = "" THEN Assign(s1, "platform", platform) ELSE s1
  IN DefineProperty(s2, "platform", s2.platform)

\* _sessions.read(id) || Object.create(null)
ReadOrCreateAlwaysFresh(store, id) == EmptySession

ReadOrCreate(store, id) ==
  IF id \in DOMAIN store THEN Loaded(store[id]) ELSE EmptySession

\* the object the mapper of event e holds after line 211: the one made by
\* Object.create(null), or the one the store made for this read (a store
\* deserialises or clones the record it keeps on every read)
OwnObject(s, e) == [s EXCEPT !.ref = e]

\* _sessions.write(id, session)
StoreWrite(store, id, s) ==
  [k \in DOMAIN store \cup {id} |-> IF k = id THEN Stored(s) ELSE store[k]]

\* what the code of a collaborator (connector.updateSession, a plugin, an
\* Action) may try on the fixed properties of the session it is handed
Mutations == {"none", "id", "platform"}

Mutate(s, m) ==
  CASE m = "none" -> s
    [] m = "id" -> Assign(s, "id", "forged")
    [] m = "platform" -> Assign(s, "platform", "forged")

\* ---------------------------------------------------------------- contexts
NoContext ==
  [created |-> FALSE, response |-> Undefined, isSessionWritten |-> FALSE,
   emitted |-> <<>>]

\* connector.createContext({event, session, initialState, requestContext,
\* emitter})
CreateContext == [NoContext EXCEPT !.created = TRUE]

NoTask ==
  [pc |-> "none", nextDialog |-> 0, props |-> EmptyProps, active |-> 0,
   error |-> NoError, calls |-> <<>>]

\* per context: the plugin calls awaited, those that have fulfilled, and
\* whether one has failed
NoPlugins == [pending |-> 0, done |-> 0, failed |-> FALSE]

NoPromise == [state |-> "none", reason |-> NoError]

NoReq == [pc |-> "idle", body |-> NullBody, ret |-> Undefined, error |-> NoError]

\* -------------------------------------------------------------------- Init
\* The state after `new Bot({connector, sessionStore, sync})`; the store
\* handed in is empty or holds a record of an earlier deployment.
InitStores == {<<>>, [k \in {MkSessionId(Platform, "k1")} |-> LegacyRecord]}

InitPipe ==
  /\ cur = 0
  /\ phase = "idle"
  /\ events = <<>>
  /\ res = <<>>
  /\ isRejected = FALSE
  /\ session = <<>>
  /\ contexts = <<>>
  /\ plug = <<>>
  /\ task = <<>>
  /\ promises = NoPromise
  /\ wr = <<>>
  /\ console = <<>>

Init ==
  /\ handler = 0
  /\ errorHandler = 0
  /\ plugins = 0
  /\ sync \in BOOLEAN
  /\ requestHandler = "none"
  /\ initialized = FALSE
  /\ sessions \in InitStores
  /\ initCalls = 0
  /\ now = 0
  /\ reqs = [r \in Requests |-> NoReq]
  /\ InitPipe

\* ----------------------------------------------------------------- Actions
\* An Action is named by its place in its dialog chain: 1 is the Action
\* registered, i + 1 the Action that Action i may return; 0 is any value
\* that is not callable (null, undefined).
EntryAction == 1

\* what Action i may return: nothing callable, or the next Action
ActionResults(i) == {0} \cup {j \in {i + 1} : j <= MaxChain}

\* ------------------------------------------------------------ registration
\* onEvent(handler)
OnEvent ==
  /\ requestHandler = "none"
  /\ handler = 0
  /\ handler' = EntryAction
  /\ UNCHANGED <<errorHandler, plugins, sync, requestHandler, storeVars, now,
                 reqs, pipeVars>>

\* onError(handler)
OnError ==
  /\ requestHandler = "none"
  /\ errorHandler = 0
  /\ errorHandler' = EntryAction
  /\ UNCHANGED <<handler, plugins, sync, requestHandler, storeVars, now, reqs,
                 pipeVars>>

\* use(plugin)
Use ==
  /\ requestHandler = "none"
  /\ plugins < MaxPlugins
  /\ plugins' = plugins + 1
  /\ UNCHANGED <<handler, errorHandler, sync, requestHandler, storeVars, now,
                 reqs, pipeVars>>

\* createRequestHandler(), lines 165-175
CreateRequestHandlerUnchecked ==
  /\ requestHandler = "none"
  /\ requestHandler' = "created"
  /\ UNCHANGED <<handler, errorHandler, plugins, sync, storeVars, now, reqs,
                 pipeVars>>

CreateRequestHandler ==
  /\ requestHandler = "none"
  /\ requestHandler' = IF handler = 0 THEN "threw" ELSE "created"
  /\ UNCHANGED <<handler, errorHandler, plugins, sync, storeVars, now, reqs,
                 pipeVars>>

\* --------------------------------------------------------------- admission
Throw(r, err) == [reqs EXCEPT ![r].pc = "threw", ![r].error = err]

Return(r, value) == [reqs EXCEPT ![r].pc = "returned", ![r].ret = value]

\* initSessionStore(), lines 158-160: the latch is read before the await
MustInit == ~initialized

\* the request handler is called, lines 176-187 up to the await of init()
CallChecksBodyLate(r, body) ==
  /\ requestHandler = "created"
  /\ reqs[r].pc = "idle"
  /\ \A q \in 1..(r - 1) : reqs[q].pc # "idle"
  /\ now' = now + 1
  /\ initCalls' = IF MustInit THEN initCalls + 1 ELSE initCalls
  /\ IF body.null
       THEN reqs' = Throw(r, "Missing argument")
       ELSE reqs' = [reqs EXCEPT ![r].pc = IF MustInit THEN "init" ELSE "ready",
                                 ![r].body = body]
  /\ UNCHANGED <<botVars, initialized, sessions, pipeVars>>

Call(r, body) ==
  /\ requestHandler = "created"
  /\ reqs[r].pc = "idle"
  /\ \A q \in 1..(r - 1) : reqs[q].pc # "idle"
  /\ now' = now + 1
  /\ IF body.null
       THEN /\ reqs' = Throw(r, "Missing argument")
            /\ UNCHANGED initCalls
       ELSE /\ reqs' = [reqs EXCEPT ![r].pc = IF MustInit THEN "init" ELSE "ready",
                                    ![r].body = body]
            /\ initCalls' = IF MustInit THEN initCalls + 1 ELSE initCalls
  /\ UNCHANGED <<botVars, initialized, sessions, pipeVars>>

\* _sessions.init() settles, lines 160-161
InitSettle(r) ==
  /\ reqs[r].pc = "init"
  /\ \/ /\ initialized' = TRUE
        /\ reqs' = [reqs EXCEPT ![r].pc = "ready"]
     \/ /\ reqs' = Throw(r, "init")
        /\ UNCHANGED initialized
  /\ UNCHANGED <<botVars, sessions, initCalls, now, pipeVars>>

\* no asynchronous work of an earlier request is left
Quiescent ==
  /\ phase \in {"idle", "done", "failed"}
  /\ \A e \in DOMAIN res : res[e] \notin {"reading", "updating"}
  /\ \A e \in DOMAIN res : res[e] = "queued" => e > Concurrency
  /\ \A c \in DOMAIN plug : plug[c].pending = 0
  /\ \A c \in DOMAIN task : task[c].pc \in {"none", "fulfilled", "rejected"}
  /\ \A c \in DOMAIN wr : wr[c] # "pending"

\* lines 189-193: the events of the body, and pMap is called on them
Begin(r) ==
  /\ reqs[r].pc = "ready"
  /\ Quiescent
  /\ \/ /\ reqs' = Throw(r, "mapRequestToEvents")
        /\ cur' = r
        /\ phase' = "failed"
        /\ events' = <<>>
     \/ /\ reqs' = [reqs EXCEPT ![r].pc = "active"]
        /\ cur' = r
        /\ phase' = "resolving"
        /\ events' = MapRequestToEvents(reqs[r].body)
  /\ res' = [e \in DOMAIN events' |-> "queued"]
  /\ session' = [e \in DOMAIN events' |-> NoSession]
  /\ contexts' = [e \in DOMAIN events' |-> NoContext]
  /\ plug' = [e \in DOMAIN events' |-> NoPlugins]
  /\ task' = [e \in DOMAIN events' |-> NoTask]
  /\ wr' = [e \in DOMAIN events' |-> "none"]
  /\ isRejected' = FALSE
  /\ promises' = NoPromise
  /\ console' = <<>>
  /\ UNCHANGED <<botVars, storeVars, now>>

\* -------------------------------------------------------------- resolution
\* events between the start of getUniqueSessionKey and the return of
\* createContext
InResolution == {e \in DOMAIN res : res[e] \in {"reading", "updating"}}

\* pMap calls the mapper of event e: for the first `concurrency` events it
\* does so when it is called itself, for a later event when the mapper of
\* an earlier one has resolved, unless a mapper has rejected by then
SlotFree(e) ==
  \/ e <= Concurrency
  \/ ~isRejected /\ Cardinality(InResolution) < Concurrency

\* the mapper of an event fails: pMap rejects and the request handler
\* throws what it awaited (the first rejection only)
MapperFails(e, err) ==
  /\ res' = [res EXCEPT ![e] = "failed"]
  /\ isRejected' = TRUE
  /\ IF isRejected
       THEN UNCHANGED <<reqs, phase>>
       ELSE /\ reqs' = Throw(cur, err)
            /\ phase' = "failed"

\* lines 196-211 and 239: the mapper is called for the next event
MapperStart(e) ==
  /\ res[e] = "queued"
  /\ \A d \in 1..(e - 1) : res[d] # "queued"
  /\ SlotFree(e)
  /\ LET sessionKey ==
           GetUniqueSessionKey(BodyOrEvent(reqs[cur].body, events, e))
     IN \/ /\ MapperFails(e, "getUniqueSessionKey")
           /\ UNCHANGED contexts
        \/ /\ sessionKey # ""
           /\ res' = [res EXCEPT ![e] = "reading"]
           /\ UNCHANGED <<reqs, phase, isRejected, contexts>>
        \/ /\ sessionKey = ""
           /\ res' = [res EXCEPT ![e] = "done"]
           /\ contexts' = [contexts EXCEPT ![e] = CreateContext]
           /\ UNCHANGED <<reqs, phase, isRejected>>
        \/ /\ sessionKey = ""
           /\ MapperFails(e, "createContext")
           /\ UNCHANGED contexts
  /\ UNCHANGED <<botVars, storeVars, now, cur, events, session, plug, task,
                 promises, wr, console>>

\* lines 209-236: the read settles, the session is fixed, updateSession is
\* called
ReadSettle(e) ==
  /\ res[e] = "reading"
  /\ LET sessionKey ==
           GetUniqueSessionKey(BodyOrEvent(reqs[cur].body, events, e))
         sessionId == MkSessionId(Platform, sessionKey)
     IN \/ /\ MapperFails(e, "read")
           /\ UNCHANGED session
        \/ /\ res' = [res EXCEPT ![e] = "updating"]
           /\ session' = [session EXCEPT ![e] =
                 FixSession(OwnObject(ReadOrCreate(sessions, sessionId), e),
                            sessionId, Platform)]
           /\ UNCHANGED <<reqs, phase, isRejected>>
  /\ UNCHANGED <<botVars, storeVars, now, cur, events, contexts, plug, task,
                 promises, wr, console>>

\* lines 232-245: updateSession settles and the context is created
UpdateSettle(e) ==
  /\ res[e] = "updating"
  /\ \/ /\ MapperFails(e, "updateSession")
        /\ UNCHANGED <<session, contexts>>
     \/ /\ \E m \in Mutations :
             session' = [session EXCEPT ![e] =
                           Mutate(Assign(session[e], "user", 1), m)]
        /\ \/ /\ res' = [res EXCEPT ![e] = "done"]
              /\ contexts' = [contexts EXCEPT ![e] = CreateContext]
              /\ UNCHANGED <<reqs, phase, isRejected>>
           \/ /\ MapperFails(e, "createContext")
              /\ UNCHANGED contexts
  /\ UNCHANGED <<botVars, storeVars, now, cur, events, plug, task, promises,
                 wr, console>>

\* ----------------------------------------------------------------- plugins
\* lines 253-257, once pMap has resolved: every plugin is called with every
\* context
PluginsStart ==
  /\ phase = "resolving"
  /\ ~isRejected
  /\ \A e \in Ctxs : res[e] = "done"
  /\ phase' = "plugins"
  /\ plug' = [c \in Ctxs |-> [NoPlugins EXCEPT !.pending = plugins]]
  /\ UNCHANGED <<botVars, storeVars, now, reqs, cur, events, res, isRejected,
                 session, contexts, task, promises, wr, console>>

\* a plugin call settles; the first rejection rejects both Promise.all and
\* with them the request handler
PluginSettle(c) ==
  /\ plug[c].pending > 0
  /\ \/ /\ plug' = [plug EXCEPT ![c].pending = @ - 1, ![c].done = @ + 1]
        /\ \E m \in Mutations :
             session' = [session EXCEPT ![c] = Mutate(@, m)]
        /\ UNCHANGED <<reqs, phase>>
     \/ /\ plug' = [plug EXCEPT ![c].pending = @ - 1, ![c].failed = TRUE]
        /\ UNCHANGED session
        /\ IF phase = "plugins"
             THEN /\ reqs' = Throw(cur, "plugin")
                  /\ phase' = "failed"
             ELSE UNCHANGED <<reqs, phase>>
  /\ UNCHANGED <<botVars, storeVars, now, cur, events, res, isRejected,
                 contexts, task, promises, wr, console>>

\* --------------------------------------------------------------------- run
\* typeof nextDialog === 'function'
IsFunction(a) == a > 0

\* lines 49-59: Run(context, props) calls the entry action with props
RunEnter(t, fn, action, props) ==
  [t EXCEPT !.pc = fn, !.nextDialog = action, !.props = props,
            !.active = @ + 1,
            !.calls = Append(@, [fn |-> fn, action |-> action, props |-> props])]

\* lines 59-65: the awaited Action has returned `result`; if it is callable
\* it is called in turn, with empty props
RunResumeSameProps(t, result) ==
  IF IsFunction(result)
    THEN [t EXCEPT !.nextDialog = result,
                   !.calls = Append(@, [fn |-> t.pc, action |-> result,
                                        props |-> t.props])]
    ELSE [t EXCEPT !.nextDialog = result, !.active = @ - 1]

RunResume(t, result) ==
  IF IsFunction(result)
    THEN [t EXCEPT !.nextDialog = result, !.props = EmptyProps,
                   !.calls = Append(@, [fn |-> t.pc, action |-> result,
                                        props |-> EmptyProps])]
    ELSE [t EXCEPT !.nextDialog = result, !.active = @ - 1]

\* the awaited Action has thrown: Run rejects
RunThrows(t) == [t EXCEPT !.active = @ - 1]

\* an Action of the run is awaited
Running(t) == t.pc \in {"handler", "errorHandler"} /\ t.active > 0

\* ------------------------------------------------------------------- tasks
\* lines 283-286: the second catch
UnrecoveredUnreported(t, cx, err) ==
  <<[t EXCEPT !.pc = "rejected", !.error = err], cx>>

Unrecovered(t, cx, err) ==
  <<[t EXCEPT !.pc = "rejected", !.error = err],
    [cx EXCEPT !.emitted = Append(@, err)]>>

\* lines 277-282: the first catch
Recover(t, cx, err) ==
  IF errorHandler # 0
    THEN <<RunEnter([t EXCEPT !.error = err], "errorHandler", errorHandler,
                    ErrorProps(err)), cx>>
    ELSE Unrecovered(t, cx, err)

\* Promise.all of line 268: rejected by the first task rejected, fulfilled
\* once every task is
AllStateSettled(p, tasks) ==
  IF p.state # "pending" THEN p
  ELSE IF \A c \in DOMAIN tasks : tasks[c].pc \in {"fulfilled", "rejected"}
    THEN [state |-> "fulfilled", reason |-> NoError]
  ELSE p

AllState(p, tasks) ==
  IF p.state # "pending" THEN p
  ELSE IF \E c \in DOMAIN tasks : tasks[c].pc = "rejected"
    THEN [state |-> "rejected",
          reason |-> tasks[CHOOSE c \in DOMAIN tasks : tasks[c].pc = "rejected"].error]
  ELSE IF \A c \in DOMAIN tasks : tasks[c].pc = "fulfilled"
    THEN [state |-> "fulfilled", reason |-> NoError]
  ELSE p

TaskBecomes(c, pair) ==
  /\ task' = [task EXCEPT ![c] = pair[1]]
  /\ contexts' = [contexts EXCEPT ![c] = pair[2]]
  /\ promises' = AllState(promises, task')

\* lines 259-288 (and 323-346 up to the return when not sync): the plugins
\* are through, every context's task is started
HandlersStartAwaited ==
  /\ phase = "plugins"
  /\ \A c \in Ctxs : plug[c].pending = 0
  /\ phase' = "handling"
  /\ task' = [c \in Ctxs |-> RunEnter(NoTask, "handler", handler, EmptyProps)]
  /\ promises' = AllState([state |-> "pending", reason |-> NoError], task')
  /\ UNCHANGED <<botVars, storeVars, now, reqs, cur, events, res, isRejected,
                 session, contexts, plug, wr, console>>

HandlersStart ==
  /\ phase = "plugins"
  /\ \A c \in Ctxs : plug[c].pending = 0
  /\ phase' = "handling"
  /\ task' = [c \in Ctxs |-> RunEnter(NoTask, "handler", handler, EmptyProps)]
  /\ promises' = AllState([state |-> "pending", reason |-> NoError], task')
  /\ reqs' = IF sync THEN reqs ELSE Return(cur, Undefined)
  /\ UNCHANGED <<botVars, storeVars, now, cur, events, res, isRejected,
                 session, contexts, plug, wr, console>>

\* the responses an Action may leave in context.response
Responses(c, cx) == {cx.response, ObjectResponse(c), StringResponse}

\* lines 272-276: the chain is through; handlerDidEnd is called if the
\* context has it
AfterHandler(t, hook) ==
  [t EXCEPT !.pc = IF hook THEN "handlerDidEnd" ELSE "fulfilled"]

\* the Action a chain is awaiting returns or throws
ActionSettle(c) ==
  /\ Running(task[c])
  /\ \/ \E m \in Mutations, rv \in Responses(c, contexts[c]), hook \in BOOLEAN,
           result \in ActionResults(task[c].nextDialog) :
          LET t == RunResume(task[c], result)
              cx == [contexts[c] EXCEPT !.response = rv]
          IN /\ session' = [session EXCEPT ![c] =
                              Mutate(Assign(@, "state", now), m)]
             /\ IF Running(t) THEN TaskBecomes(c, <<t, cx>>)
                ELSE IF t.pc = "handler"
                  THEN TaskBecomes(c, <<AfterHandler(t, hook), cx>>)
                  ELSE TaskBecomes(c, <<[t EXCEPT !.pc = "fulfilled"], cx>>)
     \/ /\ UNCHANGED session
        /\ IF task[c].pc = "handler"
             THEN TaskBecomes(c, Recover(RunThrows(task[c]), contexts[c],
                                         "handler"))
             ELSE TaskBecomes(c, Unrecovered(RunThrows(task[c]), contexts[c],
                                             "errorHandler"))
  /\ UNCHANGED <<botVars, storeVars, now, reqs, cur, phase, events, res,
                 isRejected, plug, wr, console>>

\* context.handlerDidEnd() settles
HandlerDidEndSettle(c) ==
  /\ task[c].pc = "handlerDidEnd"
  /\ \/ TaskBecomes(c, <<[task[c] EXCEPT !.pc = "fulfilled"], contexts[c]>>)
     \/ TaskBecomes(c, Recover(task[c], contexts[c], "handlerDidEnd"))
  /\ UNCHANGED <<botVars, storeVars, now, reqs, cur, phase, events, res,
                 isRejected, session, plug, wr, console>>

\* ------------------------------------------------------------- persistence
\* lines 316-321: `return contexts[0].response`
ReturnLastResponse ==
  IF events = <<>> THEN Throw(cur, "TypeError")
  ELSE Return(cur, contexts[Len(contexts)].response)

ReturnResponse ==
  IF events = <<>> THEN Throw(cur, "TypeError")
  ELSE Return(cur, contexts[1].response)

\* lines 295-309 and 327-341: the body of the map callback up to its await,
\* for every context
PersistStartUnstamped ==
  /\ contexts' = contexts
  /\ session' = session
  /\ wr' = [c \in Ctxs |-> IF session[c].present THEN "pending" ELSE "none"]

PersistStart ==
  /\ contexts' = [c \in Ctxs |-> [contexts[c] EXCEPT !.isSessionWritten = TRUE]]
  /\ session' = [c \in Ctxs |-> Assign(session[c], "lastActivity", now)]
  /\ wr' = [c \in Ctxs |-> IF session[c].present THEN "pending" ELSE "none"]

\* `await promises` (line 292) or its then/catch (lines 323-345) resumes
Resume ==
  /\ phase = "handling"
  /\ promises.state \in {"fulfilled", "rejected"}
  /\ IF promises.state = "fulfilled"
       THEN /\ PersistStart
            /\ phase' = "persisting"
            /\ UNCHANGED <<reqs, console>>
       ELSE /\ console' = Append(console, promises.reason)
            /\ UNCHANGED <<contexts, session, wr>>
            /\ reqs' = IF sync THEN ReturnResponse ELSE reqs
            /\ phase' = IF sync /\ events = <<>> THEN "failed" ELSE "done"
  /\ UNCHANGED <<botVars, storeVars, now, cur, events, res, isRejected, plug,
                 task, promises>>

\* _sessions.write(session.id, session) settles
WriteSettle(c) ==
  /\ wr[c] = "pending"
  /\ \/ /\ wr' = [wr EXCEPT ![c] = "ok"]
        /\ sessions' = StoreWrite(sessions, session[c].id, session[c])
     \/ /\ wr' = [wr EXCEPT ![c] = "failed"]
        /\ UNCHANGED sessions
  /\ UNCHANGED <<botVars, initialized, initCalls, now, reqs, cur, phase,
                 events, res, isRejected, session, contexts, plug, task,
                 promises, console>>

\* the Promise.all of the writes settles: lines 311-321, or 343-345
PersistEndRethrows ==
  /\ phase = "persisting"
  /\ IF \E c \in Ctxs : wr[c] = "failed"
       THEN /\ reqs' = Throw(cur, "write")
            /\ phase' = "failed"
       ELSE /\ \A c \in Ctxs : wr[c] # "pending"
            /\ reqs' = IF sync THEN ReturnResponse ELSE reqs
            /\ phase' = IF sync /\ events = <<>> THEN "failed" ELSE "done"
  /\ UNCHANGED <<botVars, storeVars, now, cur, events, res, isRejected,
                 session, contexts, plug, task, promises, wr, console>>

PersistEnd ==
  /\ phase = "persisting"
  /\ IF \E c \in Ctxs : wr[c] = "failed"
       THEN console' = Append(console, "write")
       ELSE /\ \A c \in Ctxs : wr[c] # "pending"
            /\ UNCHANGED console
  /\ reqs' = IF sync THEN ReturnResponse ELSE reqs
  /\ phase' = IF sync /\ events = <<>> THEN "failed" ELSE "done"
  /\ UNCHANGED <<botVars, storeVars, now, cur, events, res, isRejected,
                 session, contexts, plug, task, promises, wr>>

\* ---------------------------------------------------------- specifications
\* concurrent invocations up to the end of initSessionStore
InitServing ==
  /\ handler = EntryAction
  /\ errorHandler = 0
  /\ plugins = 0
  /\ sync = FALSE
  /\ requestHandler = "created"
  /\ initialized = FALSE
  /\ sessions = <<>>
  /\ initCalls = 0
  /\ now = 0
  /\ reqs = [r \in Requests |-> NoReq]
  /\ InitPipe

NextAdmission ==
  \/ \E r \in Requests, body \in Bodies : Call(r, body)
  \/ \E r \in Requests : InitSettle(r)

SpecAdmission == InitServing /\ [][NextAdmission]_vars

\* the resolution stage of one request whose payload fills pMap's slots
NextResolution ==
  \/ \E body \in BatchBodies : Call(1, body)
  \/ InitSettle(1)
  \/ Begin(1)
  \/ \E e \in Ctxs : MapperStart(e)
  \/ \E e \in Ctxs : ReadSettle(e)
  \/ \E e \in Ctxs : UpdateSettle(e)

SpecResolution == InitServing /\ [][NextResolution]_vars

\* one request to a Bot with a primary handler only, in either mode.  Every
\* call awaited settles in the end, except the Actions and the handlerDidEnd
\* of the first context, which may stay pending for ever: nothing in the
\* code times them out.
InitHandling ==
  /\ handler = EntryAction
  /\ errorHandler = 0
  /\ plugins = 0
  /\ sync \in BOOLEAN
  /\ requestHandler = "created"
  /\ initialized = FALSE
  /\ sessions = <<>>
  /\ initCalls = 0
  /\ now = 0
  /\ reqs = [r \in Requests |-> NoReq]
  /\ InitPipe

\* the steps the event loop takes once the calls they wait for have settled
Settles ==
  \/ InitSettle(1)
  \/ Begin(1)
  \/ \E e \in Ctxs : MapperStart(e)
  \/ \E e \in Ctxs : ReadSettle(e)
  \/ \E e \in Ctxs : UpdateSettle(e)
  \/ PluginsStart
  \/ HandlersStart
  \/ \E c \in Ctxs \ {1} : ActionSettle(c)
  \/ \E c \in Ctxs \ {1} : HandlerDidEndSettle(c)
  \/ Resume
  \/ \E c \in Ctxs : WriteSettle(c)
  \/ PersistEnd

NextHandling ==
  \/ \E body \in Bodies : Call(1, body)
  \/ Settles
  \/ \E c \in Ctxs \cap {1} : ActionSettle(c)
  \/ \E c \in Ctxs \cap {1} : HandlerDidEndSettle(c)

SpecHandling == InitHandling /\ [][NextHandling]_vars /\ WF_vars(Settles)

\* requests made one after the other to a Bot with a primary handler only,
\* whose store starts empty: the next request is made once the work of the
\* request before is over
NextSequence ==
  \/ \E r \in Requests, body \in SequenceBodies : Quiescent /\ Call(r, body)
  \/ \E r \in Requests : InitSettle(r)
  \/ \E r \in Requests : Begin(r)
  \/ \E e \in Ctxs : MapperStart(e)
  \/ \E e \in Ctxs : ReadSettle(e)
  \/ \E e \in Ctxs : UpdateSettle(e)
  \/ PluginsStart
  \/ HandlersStart
  \/ \E c \in Ctxs : ActionSettle(c)
  \/ \E c \in Ctxs : HandlerDidEndSettle(c)
  \/ Resume
  \/ \E c \in Ctxs : WriteSettle(c)
  \/ PersistEnd

SpecSequence == InitHandling /\ [][NextSequence]_vars

\* the whole pipeline of one request, from the construction of the Bot

Next ==
  \/ OnEvent
  \/ OnError
  \/ Use
  \/ CreateRequestHandler
  \/ \E body \in Bodies : Call(1, body)
  \/ InitSettle(1)
  \/ Begin(1)
  \/ \E e \in Ctxs : MapperStart(e)
  \/ \E e \in Ctxs : ReadSettle(e)
  \/ \E e \in Ctxs : UpdateSettle(e)
  \/ PluginsStart
  \/ \E c \in Ctxs : PluginSettle(c)
  \/ HandlersStart
  \/ \E c \in Ctxs : ActionSettle(c)
  \/ \E c \in Ctxs : HandlerDidEndSettle(c)
  \/ Resume
  \/ \E c \in Ctxs : WriteSettle(c)
  \/ PersistEnd

Spec == Init /\ [][Next]_vars

\* ------------------------------------------------------------------ claims
SessionIdOf(e) ==
  MkSessionId(Platform,
              GetUniqueSessionKey(BodyOrEvent(reqs[cur].body, events, e)))

TaskSettled(t) == t.pc \in {"fulfilled", "rejected"}

\* the calls a task made in its run of the handler or of the error handler
Calls(t, fn) == SelectSeq(t.calls, LAMBDA x : x.fn = fn)

TriggeringErrors == {"handler", "handlerDidEnd"}

\* C1: in blocking mode, when the handler chain of a context A has failed
\* with no error handler registered and that of a context B has succeeded,
\* the finished request has written B's session to the store and, if B is the
\* first context, has returned B's response.
C1_ErrorIsolation ==
  (sync /\ errorHandler = 0 /\ cur # 0 /\ reqs[cur].pc = "returned" /\ Quiescent) =>
    \A a \in Ctxs, b \in Ctxs :
      (task[a].pc = "rejected" /\ task[b].pc = "fulfilled") =>
        /\ session[b].present => wr[b] # "none"
        /\ b = 1 => reqs[cur].ret = contexts[1].response

\* C2: once a request has passed the check of its body, init() of the
\* session store has been called exactly once, however many requests have
\* been made and however their steps interleave.
C2_InitOnce ==
  (\E r \in Requests : ~reqs[r].body.null) => initCalls = 1

\* C3: a session is written only for a context that holds one and whose
\* task has finished, and once the request is over every context that holds
\* a session and whose handler chain (or error handler) has succeeded has had
\* its session written.
C3_WriteOncePerContext ==
  \A c \in Ctxs :
    /\ wr[c] # "none" => session[c].present /\ TaskSettled(task[c])
    /\ (phase = "done" /\ Quiescent /\ session[c].present
          /\ task[c].pc = "fulfilled") => wr[c] # "none"

\* C4: in blocking mode persistence has not begun and the request handler
\* has not returned while a per-event task of the request is unsettled.
C4_AwaitsAllTasks ==
  (sync /\ cur # 0
     /\ (reqs[cur].pc = "returned" \/ phase = "persisting"
           \/ \E c \in Ctxs : wr[c] # "none")) =>
    \A c \in Ctxs : TaskSettled(task[c])

\* C5: once the work of a request is over, a context one of whose plugins
\* failed has had the error handler run on it with that error or, with no
\* error handler, its error bus notified and its task rejected, and the other
\* contexts of the request have been handled.
C5_PluginFailureHandled ==
  (cur # 0 /\ Quiescent) =>
    \A c \in Ctxs :
      plug[c].failed =>
        /\ IF errorHandler # 0
             THEN \E i \in DOMAIN task[c].calls :
                    task[c].calls[i] = [fn |-> "errorHandler", action |-> EntryAction,
                                        props |-> ErrorProps("plugin")]
             ELSE contexts[c].emitted = <<"plugin">> /\ task[c].pc = "rejected"
        /\ \A d \in Ctxs : ~plug[d].failed => TaskSettled(task[d])

\* C6: a call of the request handler fails towards its caller only for an
\* empty body (the missing handler fails createRequestHandler itself).
C6_OnlyConfigurationErrorsCross ==
  \A r \in Requests : reqs[r].pc = "threw" => reqs[r].error = "Missing argument"

\* C7: when the handler chain of a context has failed, a registered error
\* handler has been run on that context from its entry Action with the
\* triggering error as the `error` property; the error bus is notified, once
\* and with the unrecovered error, exactly when the task is rejected, which
\* happens exactly when no error handler is registered or when it failed.
C7_ErrorFallback ==
  \A c \in DOMAIN task :
    LET t == task[c]
        emitted == contexts[c].emitted
        errCalls == Calls(t, "errorHandler")
    IN /\ errCalls # <<>> =>
            /\ errorHandler # 0
            /\ errCalls[1].action = EntryAction
            /\ \E err \in TriggeringErrors : errCalls[1].props = ErrorProps(err)
            /\ t.pc = "errorHandler" => errCalls[1].props = ErrorProps(t.error)
       /\ (t.error # NoError /\ errorHandler # 0) => errCalls # <<>>
       /\ (t.error # NoError /\ errorHandler = 0) => t.pc = "rejected"
       /\ t.pc = "rejected" =>
            /\ emitted = <<t.error>>
            /\ IF errorHandler = 0 THEN t.error \in TriggeringErrors
                                   ELSE t.error = "errorHandler"
       /\ t.pc # "rejected" => emitted = <<>>

\* C7 witness: one context was recovered by the error handler and another
\* was rejected because the error handler failed in turn.
C7_Witness ==
  \E c \in DOMAIN task, d \in DOMAIN task :
    /\ task[c].pc = "fulfilled" /\ Calls(task[c], "errorHandler") # <<>>
    /\ task[d].pc = "rejected" /\ contexts[d].emitted = <<"errorHandler">>

\* C8: a run calls the Actions of its chain in order, A1 then A2 and so on,
\* each once and never two at a time; A1 gets the props given to run (none
\* for the handler, the error for the error handler) and every later Action
\* gets empty props; the run is over when an Action returns a value that is
\* not callable.
C8_DialogChaining ==
  \A c \in DOMAIN task :
    LET t == task[c]
    IN /\ t.active \in {0, 1}
       /\ Running(t) => t.nextDialog = Len(Calls(t, t.pc))
       /\ t.pc \in {"handlerDidEnd", "fulfilled"} => t.nextDialog = 0
       /\ \A fn \in {"handler", "errorHandler"} :
            LET cs == Calls(t, fn)
            IN \A i \in DOMAIN cs :
                 /\ cs[i].action = i
                 /\ cs[i].props =
                      IF i > 1 \/ fn = "handler" THEN EmptyProps
                      ELSE ErrorProps(IF t.pc = "errorHandler" THEN t.error
                                      ELSE CHOOSE err \in TriggeringErrors :
                                             cs[1].props = ErrorProps(err))

\* C8 witness: an error handler given the error went through a chain of two
\* Actions, and the handler before it through a chain of two as well.
C8_Witness ==
  \E c \in DOMAIN task :
    /\ task[c].pc = "fulfilled"
    /\ Len(Calls(task[c], "errorHandler")) >= 2
    /\ Len(Calls(task[c], "handler")) >= 2

\* pMap has settled and none of its mappers is running
ResolutionOver ==
  /\ cur # 0
  /\ InResolution = {}
  /\ \A e \in Ctxs : res[e] = "queued" => e > Concurrency /\ isRejected

\* C9: never more than 5 events are in resolution, and when the resolution
\* stage of a request is over every event of the payload has been through
\* resolution.
C9_BoundedResolution ==
  /\ Cardinality(InResolution) <= 5
  /\ ResolutionOver => \A e \in Ctxs : res[e] \in {"done", "failed"}

\* C10: the id and the platform of a session are those fixed when it was
\* resolved (the stored record's when it has them, else `platform:key` and
\* the connector's platform) whatever updateSession, the plugins and the
\* Actions tried since, and the record written carries the same two values.
C10_IdAndPlatformFixed ==
  \A e \in DOMAIN session :
    session[e].present =>
      LET sid == SessionIdOf(e)
          kept == sid \in DOMAIN sessions
      IN /\ session[e].id =
              IF kept /\ sessions[sid].id # "" THEN sessions[sid].id ELSE sid
         /\ session[e].platform =
              IF kept /\ sessions[sid].platform # "" THEN sessions[sid].platform
              ELSE Platform
         /\ wr[e] = "ok" =>
              /\ session[e].id \in DOMAIN sessions
              /\ sessions[session[e].id].id = session[e].id
              /\ sessions[session[e].id].platform = session[e].platform

\* C10 witness: a session read from a record of an earlier deployment went
\* through updateSession, a plugin and the handler and was written back
\* under the id it was read with.
C10_Witness ==
  \E c \in DOMAIN session :
    /\ session[c].id = LegacyRecord.id
    /\ session[c].platform = LegacyRecord.platform
    /\ plugins > 0
    /\ task[c].pc = "fulfilled"
    /\ wr[c] = "ok"

\* nothing of the pipeline of a request has run
PipelineUntouched ==
  /\ cur = 0
  /\ phase = "idle"
  /\ events = <<>>
  /\ contexts = <<>>
  /\ plug = <<>>
  /\ task = <<>>
  /\ wr = <<>>

\* C11: a call of the request handler with an absent (falsy) body fails with
\* the missing-argument error, and when it is the only call made so far the
\* store has had no init, read or write call, the connector no call, and no
\* plugin or handler has run.
C11_EmptyBodyRejected ==
  \A r \in Requests :
    (reqs[r].pc # "idle" /\ reqs[r].body.null) =>
      /\ reqs[r].pc = "threw"
      /\ reqs[r].error = "Missing argument"
      /\ cur # r
      /\ (\A q \in Requests \ {r} : reqs[q].pc = "idle") =>
           /\ initCalls = 0
           /\ ~initialized
           /\ sessions \in InitStores
           /\ PipelineUntouched

\* C11 witness: a Bot with an error handler and a plugin was called with an
\* absent body.
C11_Witness ==
  /\ reqs[1].pc = "threw"
  /\ reqs[1].error = "Missing argument"
  /\ plugins > 0
  /\ errorHandler # 0

\* C12: without a primary handler createRequestHandler throws and returns no
\* request handler; no request is ever made to, or processed by, a Bot
\* without one, and its store and connector are never called.
C12_MissingHandlerFatal ==
  /\ requestHandler = "threw" => handler = 0
  /\ requestHandler = "created" => handler # 0
  /\ (handler = 0 \/ requestHandler # "created") =>
       /\ \A r \in Requests : reqs[r].pc = "idle"
       /\ initCalls = 0
       /\ ~initialized
       /\ sessions \in InitStores
       /\ PipelineUntouched

\* C12 witness: createRequestHandler threw on a Bot that had an error handler
\* and a plugin but no primary handler.
C12_Witness ==
  /\ requestHandler = "threw"
  /\ errorHandler # 0
  /\ plugins > 0

\* the step in which the request handler in hand returns to its caller
Returns == cur # 0 /\ cur' = cur /\ reqs[cur].pc # "returned" /\ reqs'[cur].pc = "returned"

\* a non-empty structured value
IsObject(v) == v[1] = "object"

\* C13: in blocking mode the request handler returns the first context's
\* response when that is a non-empty structured value and nothing otherwise,
\* whatever the responses of the other contexts.
C13_FirstResponseOnly ==
  [][(sync /\ Returns) =>
       reqs'[cur].ret = IF IsObject(contexts[1].response)
                          THEN contexts[1].response ELSE Undefined]_vars

\* C13 as amended: in blocking mode the request handler returns the first
\* context's response as it is when it returns, structured or not,
\* whatever the responses of the other contexts.
C13_ReturnsFirstResponseAsIs ==
  [][(sync /\ Returns) => reqs'[cur].ret = contexts[1].response]_vars

\* C13 witness: a blocking request returned the string its first context
\* held while its second context held a structured response.
C13_Witness ==
  /\ sync
  /\ cur # 0
  /\ reqs[cur].pc = "returned"
  /\ Len(contexts) = 2
  /\ reqs[cur].ret = StringResponse
  /\ contexts[1].response = StringResponse
  /\ contexts[2].response = ObjectResponse(2)

\* C14: in fire-and-forget mode the request handler has returned by the time
\* the handlers are started, the value it returns is empty whatever the
\* responses of the contexts and the outcome of the handlers, and a session
\* is written, and a context flagged as written, only after it returned.
C14_FireAndForget ==
  (~sync /\ cur # 0) =>
    /\ reqs[cur].pc = "returned" => reqs[cur].ret = Undefined
    /\ phase \in {"handling", "persisting", "done"} => reqs[cur].pc = "returned"
    /\ \A c \in Ctxs :
         (wr[c] # "none" \/ contexts[c].isSessionWritten) =>
           reqs[cur].pc = "returned"

\* C14 witness: a fire-and-forget request returned nothing although its
\* first context holds a structured response, and the session of that
\* context has been written since.
C14_Witness ==
  /\ ~sync
  /\ cur # 0
  /\ reqs[cur].pc = "returned"
  /\ reqs[cur].ret = Undefined
  /\ Len(contexts) >= 1
  /\ contexts[1].response = ObjectResponse(1)
  /\ wr[1] = "ok"

\* C15: once the resolution of a payload of N events is over, N contexts
\* have been created, one for each event and in the order of the events; a
\* context has a session exactly when its event has a session key; and no
\* two contexts of the request hold the same session object, not even when
\* their events have the same session key.
C15_OneContextPerEvent ==
  ResolutionOver =>
    /\ DOMAIN contexts = 1..Len(events)
    /\ \A e \in Ctxs :
         /\ contexts[e].created
         /\ session[e].present <=>
              GetUniqueSessionKey(BodyOrEvent(reqs[cur].body, events, e)) # ""
    /\ \A c \in Ctxs, d \in Ctxs :
         (c # d /\ session[c].present /\ session[d].present) =>
           session[c].ref # session[d].ref

\* the task of context c has settled; a write of its session was issued
Settled(c) == c \in DOMAIN task /\ TaskSettled(task[c])
WriteIssued(c) == c \in DOMAIN wr /\ wr[c] # "none"

\* C16: while the handler chain of the first context stays pending, the
\* chain of every other context still runs to its end, a context whose
\* chain succeeded and which holds a session gets its session written, and
\* in fire-and-forget mode the request handler returns.
C16_StuckHandlerIsolated ==
  \A d \in 2..MaxEvents :
    /\ (d \in DOMAIN task /\ task[d].pc = "handler")
          ~> (Settled(d) \/ Settled(1))
    /\ (d \in DOMAIN task /\ task[d].pc = "fulfilled" /\ session[d].present)
          ~> (WriteIssued(d) \/ Settled(1))
    /\ (~sync /\ phase = "handling") ~> (cur # 0 /\ reqs[cur].pc = "returned")

\* C17: a request some of whose session writes failed never fails towards
\* its caller: once the writes are awaited the failure has been given to
\* console.error, and the request handler has returned the first context's
\* response in blocking mode and nothing in fire-and-forget mode.
C17_WriteFailureLogged ==
  cur # 0 =>
    /\ (\E c \in Ctxs : wr[c] # "none") => reqs[cur].pc # "threw"
    /\ (phase \in {"done", "failed"} /\ \E c \in Ctxs : wr[c] = "failed") =>
         /\ console = <<"write">>
         /\ reqs[cur].pc = "returned"
         /\ reqs[cur].ret = IF sync THEN contexts[1].response ELSE Undefined

\* C17 witness: a blocking request whose write failed returned the
\* structured response of its first context.
C17_Witness ==
  /\ sync
  /\ phase = "done"
  /\ Len(contexts) >= 1
  /\ wr[1] = "failed"
  /\ reqs[cur].pc = "returned"
  /\ reqs[cur].ret = ObjectResponse(1)

\* C18: with a store that starts empty and is written by the request
\* handler only, every record is kept under the `platform:sessionKey` id it
\* carries, every session in hand has the id and the platform of its
\* event's key, and a session just read for a key that was written before
\* has the id, the platform and the application-set fields of the record
\* last written for it.
C18_SessionRoundTrip ==
  /\ \A k \in DOMAIN sessions :
       /\ sessions[k].id = k
       /\ sessions[k].platform = Platform
  /\ \A e \in DOMAIN session :
       session[e].present =>
         /\ session[e].id = SessionIdOf(e)
         /\ session[e].platform = Platform
         /\ (res[e] = "updating" /\ SessionIdOf(e) \in DOMAIN sessions) =>
              Stored(session[e]) = sessions[SessionIdOf(e)]

\* C18 witness: the second request has just read, for key k1, the record the
\* first request wrote after its handler had set the state.
C18_Witness ==
  /\ cur = 2
  /\ \E e \in DOMAIN session :
       /\ res[e] = "updating"
       /\ session[e].id = MkSessionId(Platform, "k1")
       /\ session[e].state = 1
       /\ session[e].user = 1
       /\ session[e].lastActivity > 0

\* C19: for every context the steps come in this order: the session is read
\* and fixed before updateSession is called, the context is created after
\* updateSession, plugins are called once every context is created, no
\* Action is called before every plugin call of every context has
\* fulfilled, handlerDidEnd is called only after the handler chain reached
\* its end without an error, and a write is issued only for a fulfilled task,
\* with isSessionWritten set and lastActivity stamped, the stamp being part
\* of the record stored.
C19_PipelineOrder ==
  \A c \in Ctxs :
    LET t == task[c]
    IN /\ res[c] = "updating" =>
            /\ session[c].present
            /\ ~session[c].idWritable /\ ~session[c].platformWritable
            /\ ~contexts[c].created
       /\ contexts[c].created =>
            /\ res[c] = "done"
            /\ session[c].present => session[c].user = 1
       /\ (plug[c].pending > 0 \/ plug[c].done > 0 \/ plug[c].failed) =>
            \A d \in Ctxs : contexts[d].created
       /\ t.pc # "none" =>
            \A d \in Ctxs :
              /\ contexts[d].created
              /\ plug[d] = [pending |-> 0, done |-> plugins, failed |-> FALSE]
       /\ t.pc = "handlerDidEnd" =>
            /\ Calls(t, "handler") # <<>>
            /\ Calls(t, "errorHandler") = <<>>
            /\ t.nextDialog = 0 /\ t.active = 0 /\ t.error = NoError
       /\ Calls(t, "errorHandler") # <<>> => Calls(t, "handler") # <<>>
       /\ contexts[c].isSessionWritten => t.pc = "fulfilled"
       /\ wr[c] # "none" =>
            /\ t.pc = "fulfilled"
            /\ session[c].present
            /\ contexts[c].isSessionWritten
            /\ session[c].lastActivity = now
       /\ wr[c] = "ok" => sessions[session[c].id].lastActivity = now

\* C19 witness: a context went through updateSession, a plugin, a chain of
\* two Actions and the write of its session.
C19_Witness ==
  \E c \in Ctxs :
    /\ plugins > 0
    /\ plug[c].done = plugins
    /\ session[c].user = 1
    /\ Len(Calls(task[c], "handler")) = 2
    /\ contexts[c].isSessionWritten
    /\ wr[c] = "ok"

\* C20: in both modes a write is issued, and a context flagged as written,
\* only when the task of every context of the request has been fulfilled
\* (by its handler chain or by the error handler), and when the task of a
\* context has been rejected no write is issued, no context is flagged and
\* the store keeps what it held.
C20_AllOrNothing ==
  /\ (\E c \in Ctxs : wr[c] # "none" \/ contexts[c].isSessionWritten) =>
       \A d \in Ctxs : task[d].pc = "fulfilled"
  /\ (\E c \in Ctxs : task[c].pc = "rejected") =>
       /\ \A d \in Ctxs : wr[d] = "none" /\ ~contexts[d].isSessionWritten
       /\ sessions \in InitStores

\* C20 witness: a request is over whose first context succeeded and holds a
\* session while its second context failed: nothing was written.
C20_Witness ==
  /\ phase = "done"
  /\ Len(task) = 2
  /\ task[1].pc = "fulfilled"
  /\ session[1].present
  /\ task[2].pc = "rejected"
  /\ wr[1] = "none"

====
